---- MODULE Spec2Model ----
(***************************************************************************)
(* gofilesync: watchAndSync mirrors a watched local folder to an SFTP      *)
(* server.  The model follows the sync command: the main goroutine of      *)
(* watchAndSync (watcher, connection, signal wait), the event-loop         *)
(* goroutine it starts, the local filesystem with the fsnotify watcher as  *)
(* the environment, and the remote store behind the SFTP session.          *)
(***************************************************************************)
EXTENDS Integers, Sequences, FiniteSets, TLC

\* ---------------------------------------------------------------- bounds
\* Total number of notifications (events and errors) the watcher delivers.
MaxEvents == 3

\* ---------------------------------------------------------------- universe
\* Paths relative to cfg.LocalPath, as sequences of components.
Paths == {<<"a">>, <<"b">>}

\* A subdirectory of cfg.LocalPath and a file inside it.
SubDirs == {<<"d">>}

SubPaths == {<<"d", "a">>}

AllPaths == Paths \cup SubDirs \cup SubPaths

Absent == 0
\* A remote file that was created/truncated but whose body was not written.
Partial == -1

VARIABLES
    local,        \* local file -> Absent or the version of its content
    remote,       \* remote file name -> Absent, Partial or a content version
    observed,     \* every event the watcher put on watcher.Events, in order
    recvd,        \* number of events the event loop has received
    opLog,        \* every uploadFile/deleteFile call of the loop, in order
    mainPc,       \* position of watchAndSync's own goroutine
    loopPc,       \* position of the event-loop goroutine
    watcherOpen,  \* fsnotify watcher created and not closed
    sessionOpen,  \* SFTP client connected and not closed
    watching,     \* watcher.Add(cfg.LocalPath) succeeded
    signalled,    \* os.Interrupt/SIGTERM has been delivered to channel c
    errPending,   \* errors waiting on watcher.Errors
    errLogged,    \* "watcher error" lines written by LogError
    result,       \* return value of watchAndSync
    mode,         \* how the sync is started: the sync command or the service
    startPc,      \* position of the start path (command action or program.run)
    cfgLoad,      \* outcome of the start path's loadConfig
    loggerSet,    \* the package-level logger is not nil
    svcPc,        \* what the service host has called: Start, Stop
    startResult,  \* what the start path returned to its caller
    panicked,     \* a logging call dereferenced the nil logger
    cfgFile,      \* the config file on disk
    keyring,      \* the OS keyring entry ("gofilesync", username)
    entered,      \* the password typed into the setup
    written,      \* the setup's os.WriteFile succeeded
    setupPc,      \* position of the setup-then-load run
    loaded,       \* what loadConfig returned
    logged        \* the passwords that appeared in log or console output

\* The state of watchAndSync, except the position of its main goroutine.
syncRest == <<local, remote, observed, recvd, opLog, loopPc, watcherOpen,
              sessionOpen, watching, signalled, errPending, errLogged, result>>

startVars == <<mode, startPc, cfgLoad, loggerSet, svcPc, startResult, panicked>>

setupVars == <<cfgFile, keyring, entered, written, setupPc, loaded, logged>>

vars == <<local, remote, observed, recvd, opLog, mainPc, loopPc, watcherOpen,
          sessionOpen, watching, signalled, errPending, errLogged, result,
          startVars, setupVars>>

\* ---------------------------------------------------------------- helpers
\* filepath.Base(event.Name)
Base(name) == name[Len(name)]

\* remoteFile := cfg.RemotePath + "/" + filepath.Base(event.Name)
RemoteFile(name) == <<"remote", Base(name)>>

RemoteFiles == {RemoteFile(p) : p \in AllPaths}

\* Mutant of IsUploadOp: only Create is tested, a Write starts no upload.
IsUploadOpCreateOnly(op) == "Create" \in op

\* event.Op&fsnotify.Write == fsnotify.Write || event.Op&fsnotify.Create == fsnotify.Create
IsUploadOp(op) == ("Write" \in op) \/ ("Create" \in op)

\* Mutant of IsRemoveOp: the wrong flag is tested, Rename in place of Remove.
IsRemoveOpRename(op) == "Rename" \in op

\* event.Op&fsnotify.Remove == fsnotify.Remove
IsRemoveOp(op) == "Remove" \in op

\* Notifications delivered so far.
Delivered == Len(observed) + errPending + errLogged

\* The version a change writes: the number of the notification reporting it.
NewVersion == Delivered + 1

\* Indices of the calls that have started and not returned.
InFlight == {i \in DOMAIN opLog : opLog[i].outcome = "inflight"}

OpRecord(ev, seq, kind, outcome, content) ==
    [name |-> ev.name, remote |-> RemoteFile(ev.name), kind |-> kind,
     seq |-> seq, outcome |-> outcome, content |-> content]

\* ---------------------------------------------------------------- initial state
\* No config file.
NoFile == [exists |-> FALSE, useKeyring |-> FALSE, hasPassword |-> FALSE, password |-> ""]

\* loadConfig has not returned.
NotLoaded == [status |-> "none", password |-> ""]

\* No setup is running.
NoSetupInit ==
    /\ cfgFile = NoFile
    /\ keyring = {}
    /\ entered = ""
    /\ written = FALSE
    /\ setupPc = "none"
    /\ loaded = NotLoaded
    /\ logged = {}

\* watchAndSync has not touched anything yet.
SyncInit ==
    /\ local = [p \in AllPaths |-> Absent]
    /\ remote = [r \in RemoteFiles |-> Absent]
    /\ observed = <<>>
    /\ recvd = 0
    /\ opLog = <<>>
    /\ loopPc = "notStarted"
    /\ watcherOpen = FALSE
    /\ sessionOpen = FALSE
    /\ watching = FALSE
    /\ signalled = FALSE
    /\ errPending = 0
    /\ errLogged = 0
    /\ result = "none"

\* The sync command has loaded the config, initialised the logger and is
\* entering watchAndSync(cfg).
Init ==
    /\ SyncInit
    /\ mainPc = "newWatcher"
    /\ mode = "cli"
    /\ startPc = "watchAndSync"
    /\ cfgLoad = "ok"
    /\ loggerSet = TRUE
    /\ svcPc = "none"
    /\ startResult = "none"
    /\ panicked = FALSE
    /\ NoSetupInit


\* ---------------------------------------------------------------- watchAndSync, main goroutine
\* watcher, err := fsnotify.NewWatcher(); if err != nil { return err }
NewWatcher ==
    /\ mainPc = "newWatcher"
    /\ \E ok \in BOOLEAN :
         IF ok
         THEN /\ watcherOpen' = TRUE
              /\ mainPc' = "connect"
              /\ result' = result
         ELSE /\ watcherOpen' = watcherOpen
              /\ mainPc' = "returned"
              /\ result' = "error"
    /\ UNCHANGED <<local, remote, observed, recvd, opLog, loopPc, sessionOpen,
                   watching, signalled, errPending, errLogged,
                   startVars, setupVars>>

\* sftpClient, err := sftpConnect(cfg); on failure return the wrapped error
\* (the deferred watcher.Close() runs).
Connect ==
    /\ mainPc = "connect"
    /\ \E ok \in BOOLEAN :
         IF ok
         THEN /\ sessionOpen' = TRUE
              /\ mainPc' = "spawn"
              /\ UNCHANGED <<watcherOpen, result>>
         ELSE /\ sessionOpen' = sessionOpen
              /\ watcherOpen' = FALSE
              /\ mainPc' = "returned"
              /\ result' = "error"
    /\ UNCHANGED <<local, remote, observed, recvd, opLog, loopPc, watching,
                   signalled, errPending, errLogged,
                   startVars, setupVars>>

\* done := make(chan bool); go func() { for { select { ... } } }()
Spawn ==
    /\ mainPc = "spawn"
    /\ mainPc' = "add"
    /\ loopPc' = "select"
    /\ UNCHANGED <<local, remote, observed, recvd, opLog, watcherOpen,
                   sessionOpen, watching, signalled, errPending, errLogged, result,
                   startVars, setupVars>>

\* Mutant of AddWatch: the failure path returns without the deferred closes.
AddWatchNoClose ==
    /\ mainPc = "add"
    /\ \E ok \in BOOLEAN :
         IF ok
         THEN /\ watching' = TRUE
              /\ mainPc' = "wait"
              /\ UNCHANGED <<watcherOpen, sessionOpen, result>>
         ELSE /\ mainPc' = "returned"
              /\ result' = "error"
              /\ UNCHANGED <<watching, watcherOpen, sessionOpen>>
    /\ UNCHANGED <<local, remote, observed, recvd, opLog, loopPc, signalled,
                   errPending, errLogged,
                   startVars, setupVars>>

\* err = watcher.Add(cfg.LocalPath); on failure return err (the deferred
\* sftpClient.Close() and watcher.Close() run).  On success the signal
\* channel is registered and the goroutine waits on it.
AddWatch ==
    /\ mainPc = "add"
    /\ \E ok \in BOOLEAN :
         IF ok
         THEN /\ watching' = TRUE
              /\ mainPc' = "wait"
              /\ UNCHANGED <<watcherOpen, sessionOpen, result>>
         ELSE /\ watching' = watching
              /\ sessionOpen' = FALSE
              /\ watcherOpen' = FALSE
              /\ mainPc' = "returned"
              /\ result' = "error"
    /\ UNCHANGED <<local, remote, observed, recvd, opLog, loopPc, signalled,
                   errPending, errLogged,
                   startVars, setupVars>>

\* os.Interrupt or SIGTERM is delivered to channel c (buffer of one).
Signal ==
    /\ mainPc = "wait"
    /\ ~signalled
    /\ signalled' = TRUE
    /\ UNCHANGED <<local, remote, observed, recvd, opLog, mainPc, loopPc,
                   watcherOpen, sessionOpen, watching, errPending, errLogged, result,
                   startVars, setupVars>>

\* <-c
RecvSignal ==
    /\ mainPc = "wait"
    /\ signalled
    /\ mainPc' = "sendDone"
    /\ UNCHANGED <<local, remote, observed, recvd, opLog, loopPc, watcherOpen,
                   sessionOpen, watching, signalled, errPending, errLogged, result,
                   startVars, setupVars>>

\* done <- true: done is unbuffered and the select of the event loop has
\* only the cases watcher.Events and watcher.Errors, so no goroutine ever
\* receives from done.  The send never completes: no action leaves
\* mainPc = "sendDone", and the return nil after it (with the deferred
\* sftpClient.Close() and watcher.Close()) is never reached.

\* ---------------------------------------------------------------- local filesystem and fsnotify
\* The watcher reports an event for a direct child of cfg.LocalPath.
Emit(evs) == observed' = observed \o evs

Event(p, op) == [name |-> p, op |-> op]

CanNotify(n) == watching /\ watcherOpen /\ Delivered + n <= MaxEvents

\* A file is created in the watched folder.
FsCreate(p) ==
    /\ CanNotify(1)
    /\ local[p] = Absent
    /\ local' = [local EXCEPT ![p] = NewVersion]
    /\ Emit(<<Event(p, {"Create"})>>)
    /\ UNCHANGED <<remote, recvd, opLog, mainPc, loopPc, watcherOpen, sessionOpen,
                   watching, signalled, errPending, errLogged, result,
                   startVars, setupVars>>

\* An existing file is written.
FsWrite(p) ==
    /\ CanNotify(1)
    /\ local[p] # Absent
    /\ local' = [local EXCEPT ![p] = NewVersion]
    /\ Emit(<<Event(p, {"Write"})>>)
    /\ UNCHANGED <<remote, recvd, opLog, mainPc, loopPc, watcherOpen, sessionOpen,
                   watching, signalled, errPending, errLogged, result,
                   startVars, setupVars>>

\* An existing file is removed.
FsRemove(p) ==
    /\ CanNotify(1)
    /\ local[p] # Absent
    /\ local' = [local EXCEPT ![p] = Absent]
    /\ Emit(<<Event(p, {"Remove"})>>)
    /\ UNCHANGED <<remote, recvd, opLog, mainPc, loopPc, watcherOpen, sessionOpen,
                   watching, signalled, errPending, errLogged, result,
                   startVars, setupVars>>

\* A file is written and unlinked before the watcher reads the change: the
\* backend reports both in one event (Op = Write|Remove).
FsWriteRemove(p) ==
    /\ CanNotify(1)
    /\ local[p] # Absent
    /\ local' = [local EXCEPT ![p] = Absent]
    /\ Emit(<<Event(p, {"Write", "Remove"})>>)
    /\ UNCHANGED <<remote, recvd, opLog, mainPc, loopPc, watcherOpen, sessionOpen,
                   watching, signalled, errPending, errLogged, result,
                   startVars, setupVars>>

\* A file is renamed inside the watched folder: the watcher reports Rename
\* for the old name and Create for the new one.
FsRename(p, q) ==
    /\ CanNotify(2)
    /\ p # q
    /\ local[p] # Absent
    /\ local' = [local EXCEPT ![p] = Absent, ![q] = local[p]]
    /\ Emit(<<Event(p, {"Rename"}), Event(q, {"Create"})>>)
    /\ UNCHANGED <<remote, recvd, opLog, mainPc, loopPc, watcherOpen, sessionOpen,
                   watching, signalled, errPending, errLogged, result,
                   startVars, setupVars>>

\* The mode of an existing file is changed: the watcher reports Chmod.
FsChmod(p) ==
    /\ CanNotify(1)
    /\ local[p] # Absent
    /\ Emit(<<Event(p, {"Chmod"})>>)
    /\ UNCHANGED <<local, remote, recvd, opLog, mainPc, loopPc, watcherOpen,
                   sessionOpen, watching, signalled, errPending, errLogged, result,
                   startVars, setupVars>>

\* The parent directory of a path below a subdirectory.
Parent(p) == SubSeq(p, 1, Len(p) - 1)

\* A subdirectory is created in the watched folder: it is a direct child,
\* so the watcher reports Create for it.  The handler never adds it to the
\* watcher.
FsMkdir(d) ==
    /\ CanNotify(1)
    /\ local[d] = Absent
    /\ local' = [local EXCEPT ![d] = NewVersion]
    /\ Emit(<<Event(d, {"Create"})>>)
    /\ UNCHANGED <<remote, recvd, opLog, mainPc, loopPc, watcherOpen, sessionOpen,
                   watching, signalled, errPending, errLogged, result,
                   startVars, setupVars>>

\* An empty subdirectory is removed.
FsRmdir(d) ==
    /\ CanNotify(1)
    /\ local[d] # Absent
    /\ \A p \in SubPaths : Parent(p) = d => local[p] = Absent
    /\ local' = [local EXCEPT ![d] = Absent]
    /\ Emit(<<Event(d, {"Remove"})>>)
    /\ UNCHANGED <<remote, recvd, opLog, mainPc, loopPc, watcherOpen, sessionOpen,
                   watching, signalled, errPending, errLogged, result,
                   startVars, setupVars>>

\* A file is created inside the subdirectory.  Only cfg.LocalPath itself is
\* registered with the watcher and fsnotify does not watch recursively, so
\* no event is reported.
FsCreateInDir(p) ==
    /\ watching
    /\ local[Parent(p)] # Absent
    /\ local[p] = Absent
    /\ local' = [local EXCEPT ![p] = NewVersion]
    /\ UNCHANGED <<remote, observed, recvd, opLog, mainPc, loopPc, watcherOpen,
                   sessionOpen, watching, signalled, errPending, errLogged, result,
                   startVars, setupVars>>

\* A file inside the subdirectory is removed; no event is reported.
FsRemoveInDir(p) ==
    /\ watching
    /\ local[p] # Absent
    /\ local' = [local EXCEPT ![p] = Absent]
    /\ UNCHANGED <<remote, observed, recvd, opLog, mainPc, loopPc, watcherOpen,
                   sessionOpen, watching, signalled, errPending, errLogged, result,
                   startVars, setupVars>>

\* The watcher reports an error on watcher.Errors.
WatchError ==
    /\ CanNotify(1)
    /\ errPending' = errPending + 1
    /\ UNCHANGED <<local, remote, observed, recvd, opLog, mainPc, loopPc,
                   watcherOpen, sessionOpen, watching, signalled, errLogged, result,
                   startVars, setupVars>>


\* ---------------------------------------------------------------- the event loop goroutine
\* Mutant of PcInUpload: the upload is started with "go uploadFile(...)" and
\* the loop returns to the select at once.
PcInUploadAsync == "select"

\* uploadFile(sftpClient, event.Name, remoteFile) is an ordinary call: the
\* loop is inside it until it returns.
PcInUpload == "upload"

\* Mutant of PcInDelete: the delete is started with "go deleteFile(...)".
PcInDeleteAsync == "select"

\* deleteFile(sftpClient, remoteFile) is an ordinary call as well.
PcInDelete == "delete"

\* Mutant of RemoveBranch: the second if is written as the else of the first,
\* so an event with an upload flag never starts deleteFile.
RemoveBranchElse(ev, seq, log) ==
    IF IsRemoveOp(ev.op) /\ ~IsUploadOp(ev.op)
    THEN /\ opLog' = Append(log, OpRecord(ev, seq, "delete", "inflight", Absent))
         /\ loopPc' = PcInDelete
    ELSE /\ opLog' = log
         /\ loopPc' = "select"

\* The second if of the handler, reached when the upload branch is over (or
\* was not taken): a Remove flag starts deleteFile, otherwise the loop goes
\* back to the select.  log is the operation log up to here.
RemoveBranch(ev, seq, log) ==
    IF IsRemoveOp(ev.op)
    THEN /\ opLog' = Append(log, OpRecord(ev, seq, "delete", "inflight", Absent))
         /\ loopPc' = PcInDelete
    ELSE /\ opLog' = log
         /\ loopPc' = "select"

\* The first if of the handler: a Write or Create flag calls uploadFile,
\* which starts with os.Open(localPath) and returns its error when the file
\* is gone; the error is discarded by the caller.
UploadBranch(ev, seq) ==
    IF IsUploadOp(ev.op)
    THEN IF local[ev.name] = Absent
         THEN RemoveBranch(ev, seq,
                  Append(opLog, OpRecord(ev, seq, "upload", "openError", Absent)))
         ELSE /\ opLog' = Append(opLog,
                      OpRecord(ev, seq, "upload", "inflight", local[ev.name]))
              /\ loopPc' = PcInUpload
    ELSE RemoveBranch(ev, seq, opLog)

\* Mutant of NextEventIndex: the loop takes the newest waiting event and
\* drops the ones before it.
NextEventIndexNewest == Len(observed)

\* The event the select takes from watcher.Events: the oldest one waiting.
NextEventIndex == recvd + 1

\* case event, ok := <-watcher.Events (ok): the handler up to its first
\* remote call.
Receive ==
    /\ loopPc = "select"
    /\ watcherOpen
    /\ recvd < Len(observed)
    /\ recvd' = NextEventIndex
    /\ UploadBranch(observed[NextEventIndex], NextEventIndex)
    /\ UNCHANGED <<local, remote, observed, mainPc, watcherOpen, sessionOpen,
                   watching, signalled, errPending, errLogged, result,
                   startVars, setupVars>>

\* What the running uploadFile can come to: sftpClient.Create fails, or
\* ReadFrom fails after the remote file was created (it always does when the
\* local path is a directory), or the copy completes.
UploadOutcomes == IF sessionOpen THEN {"ok", "createError", "readError"}
                  ELSE {"createError"}

\* The content a completed copy leaves: what the file held when it was
\* opened, or what it holds now if it was rewritten during the copy.
CopiedContents(rec) ==
    {rec.content} \cup (IF local[rec.name] # Absent THEN {local[rec.name]} ELSE {})

\* uploadFile returns; its error is discarded and the handler goes on to the
\* Remove check.
FinishUpload ==
    /\ loopPc = PcInUpload
    /\ InFlight # {}
    /\ \E i \in InFlight, outcome \in UploadOutcomes :
         /\ opLog[i].kind = "upload"
         /\ \/ /\ outcome = "ok"
               /\ opLog[i].name \notin SubDirs
               /\ \E c \in CopiedContents(opLog[i]) :
                    remote' = [remote EXCEPT ![opLog[i].remote] = c]
            \/ /\ outcome = "readError"
               /\ remote' = [remote EXCEPT ![opLog[i].remote] = Partial]
            \/ /\ outcome = "createError"
               /\ remote' = remote
         /\ RemoveBranch(observed[opLog[i].seq], opLog[i].seq,
                         [opLog EXCEPT ![i].outcome = outcome])
    /\ UNCHANGED <<local, observed, recvd, mainPc, watcherOpen, sessionOpen,
                   watching, signalled, errPending, errLogged, result,
                   startVars, setupVars>>

\* Mutant of DeleteOutcomes: a missing remote file is reported as success.
DeleteOutcomesIgnoreMissing(r) ==
    IF ~sessionOpen THEN {"error"} ELSE {"ok", "error"}

\* What the running deleteFile can come to: sftpClient.Remove succeeds only
\* on a file that exists; otherwise it returns an error.
DeleteOutcomes(r) ==
    IF ~sessionOpen THEN {"error"}
    ELSE IF remote[r] = Absent THEN {"noSuchFile", "error"}
    ELSE {"ok", "error"}

\* deleteFile returns; its error is discarded and the loop goes back to the
\* select.
FinishDelete ==
    /\ loopPc = PcInDelete
    /\ InFlight # {}
    /\ \E i \in InFlight :
         /\ opLog[i].kind = "delete"
         /\ \E outcome \in DeleteOutcomes(opLog[i].remote) :
              /\ remote' = IF outcome = "ok"
                           THEN [remote EXCEPT ![opLog[i].remote] = Absent]
                           ELSE remote
              /\ opLog' = [opLog EXCEPT ![i].outcome = outcome]
    /\ loopPc' = "select"
    /\ UNCHANGED <<local, observed, recvd, mainPc, watcherOpen, sessionOpen,
                   watching, signalled, errPending, errLogged, result,
                   startVars, setupVars>>

\* Mutant of RecvError: the error case logs and returns from the goroutine.
RecvErrorReturn ==
    /\ loopPc = "select"
    /\ watcherOpen
    /\ errPending > 0
    /\ errPending' = errPending - 1
    /\ errLogged' = errLogged + 1
    /\ loopPc' = "exited"
    /\ UNCHANGED <<local, remote, observed, recvd, opLog, mainPc,
                   watcherOpen, sessionOpen, watching, signalled, result,
                   startVars, setupVars>>

\* case err, ok := <-watcher.Errors (ok): LogError("watcher error: %v", err)
\* and the loop goes on.  LogError writes at every log level.
RecvError ==
    /\ loopPc = "select"
    /\ watcherOpen
    /\ errPending > 0
    /\ errPending' = errPending - 1
    /\ errLogged' = errLogged + 1
    /\ UNCHANGED <<local, remote, observed, recvd, opLog, mainPc, loopPc,
                   watcherOpen, sessionOpen, watching, signalled, result,
                   startVars, setupVars>>

\* A receive with ok = false (watcher.Close() closed the channels): return.
LoopExit ==
    /\ loopPc = "select"
    /\ ~watcherOpen
    /\ loopPc' = "exited"
    /\ UNCHANGED <<local, remote, observed, recvd, opLog, mainPc, watcherOpen,
                   sessionOpen, watching, signalled, errPending, errLogged, result,
                   startVars, setupVars>>

\* The paths of the operations the program keeps for inspection after they
\* failed: uploadFile's and deleteFile's return values are discarded and
\* nothing is logged or stored about a failure, so there are none.
DeadLettered == {}

\* ---------------------------------------------------------------- specification
MainStep == NewWatcher \/ Connect \/ Spawn \/ AddWatch \/ RecvSignal

LoopStep == Receive \/ FinishUpload \/ FinishDelete \/ RecvError \/ LoopExit

Next ==
    \/ NewWatcher
    \/ Connect
    \/ Spawn
    \/ AddWatch
    \/ Signal
    \/ RecvSignal
    \/ \E p \in Paths : FsCreate(p)
    \/ \E p \in Paths : FsWrite(p)
    \/ \E p \in Paths : FsRemove(p)
    \/ \E p \in Paths : FsWriteRemove(p)
    \/ \E p, q \in Paths : FsRename(p, q)
    \/ \E p \in Paths : FsChmod(p)
    \/ WatchError
    \/ Receive
    \/ FinishUpload
    \/ FinishDelete
    \/ RecvError
    \/ LoopExit

Spec == Init /\ [][Next]_vars

\* The Go scheduler runs every goroutine that can take a step.
FairSpec == Spec /\ WF_vars(MainStep) /\ WF_vars(LoopStep)

\* The sync with a subdirectory in the watched folder.
TreeNext ==
    \/ Next
    \/ \E d \in SubDirs : FsMkdir(d)
    \/ \E d \in SubDirs : FsRmdir(d)
    \/ \E p \in SubPaths : FsCreateInDir(p)
    \/ \E p \in SubPaths : FsRemoveInDir(p)

TreeSpec == Init /\ [][TreeNext]_vars

\* ---------------------------------------------------------------- the start paths
\* logger.Printf on the package-level logger, which is nil until InitLogger
\* has run: LogError always reaches it, LogInfo reaches it at the initial
\* logLevel INFO.
LoggerIsNil == ~loggerSet

\* sync command: cfg, err := loadConfig(".gofilesync.json"); on failure print
\* and return err.
CliLoadConfig ==
    /\ mode = "cli"
    /\ startPc = "loadConfig"
    /\ \E ok \in BOOLEAN :
         IF ok
         THEN /\ cfgLoad' = "ok"
              /\ startPc' = "initLogger"
              /\ startResult' = startResult
         ELSE /\ cfgLoad' = "failed"
              /\ startPc' = "returned"
              /\ startResult' = "error"
    /\ UNCHANGED <<mode, loggerSet, svcPc, panicked, mainPc, syncRest, setupVars>>

\* sync command: err = InitLogger(...); on failure print and return err;
\* otherwise LogInfo("Starting ...") and watchAndSync(cfg) is entered.
CliInitLogger ==
    /\ mode = "cli"
    /\ startPc = "initLogger"
    /\ \E ok \in BOOLEAN :
         IF ok
         THEN /\ loggerSet' = TRUE
              /\ startPc' = "watchAndSync"
              /\ mainPc' = "newWatcher"
              /\ startResult' = startResult
         ELSE /\ startPc' = "returned"
              /\ startResult' = "error"
              /\ UNCHANGED <<loggerSet, mainPc>>
    /\ UNCHANGED <<mode, cfgLoad, svcPc, panicked, syncRest, setupVars>>

\* sync command: err = watchAndSync(cfg) has returned; LogError if err is
\* not nil; return err.
CliReturn ==
    /\ mode = "cli"
    /\ startPc = "watchAndSync"
    /\ mainPc = "returned"
    /\ startPc' = "returned"
    /\ startResult' = result
    /\ UNCHANGED <<mode, cfgLoad, loggerSet, svcPc, panicked, mainPc, syncRest, setupVars>>

\* program.Start: go p.run(); return nil.
SvcStart ==
    /\ mode = "service"
    /\ svcPc = "idle"
    /\ svcPc' = "started"
    /\ startPc' = "loadConfig"
    /\ startResult' = "nil"
    /\ UNCHANGED <<mode, cfgLoad, loggerSet, panicked, mainPc, syncRest, setupVars>>

\* program.run: cfg, err := loadConfig(p.configPath); on failure
\* LogError("Service failed to load config") and return.
RunLoadConfig ==
    /\ mode = "service"
    /\ startPc = "loadConfig"
    /\ ~panicked
    /\ \E ok \in BOOLEAN :
         IF ok
         THEN /\ cfgLoad' = "ok"
              /\ startPc' = "initLogger"
              /\ panicked' = panicked
         ELSE /\ cfgLoad' = "failed"
              /\ IF LoggerIsNil
                 THEN panicked' = TRUE /\ startPc' = "panicked"
                 ELSE panicked' = panicked /\ startPc' = "returned"
    /\ UNCHANGED <<mode, loggerSet, svcPc, startResult, mainPc, syncRest, setupVars>>

\* program.run: InitLogger(...); on failure print and return; otherwise
\* LogInfo("Service started ...") and watchAndSync(cfg) is entered.
RunInitLogger ==
    /\ mode = "service"
    /\ startPc = "initLogger"
    /\ ~panicked
    /\ \E ok \in BOOLEAN :
         IF ok
         THEN /\ loggerSet' = TRUE
              /\ startPc' = "watchAndSync"
              /\ mainPc' = "newWatcher"
         ELSE /\ startPc' = "returned"
              /\ UNCHANGED <<loggerSet, mainPc>>
    /\ UNCHANGED <<mode, cfgLoad, svcPc, startResult, panicked, syncRest, setupVars>>

\* program.run: watchAndSync(cfg) has returned (its error is dropped); the
\* deferred CloseLogger runs.
RunReturn ==
    /\ mode = "service"
    /\ startPc = "watchAndSync"
    /\ mainPc = "returned"
    /\ startPc' = "returned"
    /\ UNCHANGED <<mode, cfgLoad, loggerSet, svcPc, startResult, panicked, mainPc,
                   syncRest, setupVars>>

\* program.Stop: LogInfo("Service stopping..."); return nil.  It tells
\* watchAndSync nothing.
SvcStop ==
    /\ mode = "service"
    /\ svcPc = "started"
    /\ ~panicked
    /\ IF LoggerIsNil
       THEN panicked' = TRUE /\ svcPc' = svcPc
       ELSE panicked' = panicked /\ svcPc' = "stopped"
    /\ UNCHANGED <<mode, startPc, cfgLoad, loggerSet, startResult, mainPc, syncRest,
                   setupVars>>

\* The process before the sync command's action, or before the service host
\* calls program.Start.
StartInit ==
    /\ SyncInit
    /\ mainPc = "notCalled"
    /\ mode \in {"cli", "service"}
    /\ startPc = (IF mode = "cli" THEN "loadConfig" ELSE "notStarted")
    /\ cfgLoad = "none"
    /\ loggerSet = FALSE
    /\ svcPc = (IF mode = "cli" THEN "none" ELSE "idle")
    /\ startResult = "none"
    /\ panicked = FALSE
    /\ NoSetupInit

StartNext ==
    \/ CliLoadConfig
    \/ CliInitLogger
    \/ CliReturn
    \/ SvcStart
    \/ RunLoadConfig
    \/ RunInitLogger
    \/ RunReturn
    \/ SvcStop
    \/ Next

StartSpec == StartInit /\ [][StartNext]_vars

\* ---------------------------------------------------------------- setup and loadConfig
\* The passwords a user may type (survey.Required refuses an empty one).
Passwords == {"pw1", "pw2"}

\* What the password prompt leaves in pw: a password typed, or the initial
\* empty string when survey.AskOne fails (interrupt, no terminal), its error
\* being discarded.
PromptResults == Passwords \cup {""}

\* json.MarshalIndent(cfg) written to the config file: use_keyring always,
\* password only when it is not empty (omitempty).
Marshal(cfg) ==
    [exists |-> TRUE, useKeyring |-> cfg.UseKeyring,
     hasPassword |-> cfg.Password # "", password |-> cfg.Password]

\* json.Unmarshal(data, &cfg): a missing password leaves the empty string.
Unmarshal(file) ==
    [UseKeyring |-> file.useKeyring,
     Password |-> IF file.hasPassword THEN file.password ELSE ""]

\* Mutant of SetupConfig: when keyring.Set fails, UseKeyring is reset but
\* the password is not put into the config.
SetupConfigNoFallback(pw, useKeyring, setOk) ==
    IF useKeyring
    THEN IF setOk THEN [UseKeyring |-> TRUE, Password |-> ""]
         ELSE [UseKeyring |-> FALSE, Password |-> ""]
    ELSE [UseKeyring |-> FALSE, Password |-> pw]

\* interactiveSetup: cfg.UseKeyring = useKeyring; with the keyring chosen,
\* keyring.Set stores pw and on its failure UseKeyring is reset and the
\* password kept in cfg; without the keyring the password is kept in cfg.
SetupConfig(pw, useKeyring, setOk) ==
    IF useKeyring
    THEN IF setOk THEN [UseKeyring |-> TRUE, Password |-> ""]
         ELSE [UseKeyring |-> FALSE, Password |-> pw]
    ELSE [UseKeyring |-> FALSE, Password |-> pw]

\* keyring.Set("gofilesync", cfg.Username, pw)
KeyringAfterSetup(kr, pw, useKeyring, setOk) ==
    IF useKeyring /\ setOk THEN {pw} ELSE kr

\* interactiveSetup (setup.go), from the prompts to os.WriteFile, whose
\* error is ignored.
InteractiveSetup ==
    /\ setupPc = "idle"
    /\ \E pw \in PromptResults, useKeyring \in BOOLEAN, setOk \in BOOLEAN, writeOk \in BOOLEAN :
         /\ entered' = pw
         /\ keyring' = KeyringAfterSetup(keyring, pw, useKeyring, setOk)
         /\ cfgFile' = IF writeOk THEN Marshal(SetupConfig(pw, useKeyring, setOk))
                       ELSE cfgFile
         /\ written' = writeOk
    /\ setupPc' = "setupDone"
    /\ UNCHANGED <<loaded, logged, mainPc, syncRest, startVars>>

\* loadConfig (setup.go): os.ReadFile and json.Unmarshal; with UseKeyring the
\* password comes from keyring.Get, whose failure is returned as an error.
LoadResult(file, kr, readOk, getOk) ==
    IF ~file.exists \/ ~readOk
    THEN [status |-> "error", password |-> ""]
    ELSE IF Unmarshal(file).UseKeyring
         THEN IF getOk /\ kr # {}
              THEN [status |-> "ok", password |-> CHOOSE x \in kr : TRUE]
              ELSE [status |-> "error", password |-> ""]
         ELSE [status |-> "ok", password |-> Unmarshal(file).Password]

\* loadConfig (setup.go) following the setup.
LoadConfig ==
    /\ setupPc = "setupDone"
    /\ \E readOk \in BOOLEAN, getOk \in BOOLEAN :
         loaded' = LoadResult(cfgFile, keyring, readOk, getOk)
    /\ setupPc' = "loaded"
    /\ UNCHANGED <<cfgFile, keyring, entered, written, logged, mainPc, syncRest,
                   startVars>>

\* The log levels of main.go, WARN < INFO < DEBUG < TRACE.
MainLogLevels == {"warn", "info", "debug", "trace"}

\* main.go, Save button: if logLevel <= DEBUG { fmt.Printf("[DEBUG] Saving
\* config: %+v\n", cfg) }
PrintsSavedConfig(level) == level \in {"warn", "info", "debug"}

\* runTUISetup (main.go), Save button: the Config with the Password is
\* printed and written to the config file.
TUISave ==
    /\ setupPc = "idle"
    /\ \E pw \in PromptResults, level \in MainLogLevels, writeOk \in BOOLEAN :
         /\ entered' = pw
         /\ logged' = IF PrintsSavedConfig(level) THEN logged \cup {pw} ELSE logged
         /\ cfgFile' = IF writeOk THEN Marshal([UseKeyring |-> FALSE, Password |-> pw])
                       ELSE cfgFile
         /\ written' = writeOk
    /\ setupPc' = "tuiDone"
    /\ UNCHANGED <<keyring, loaded, mainPc, syncRest, startVars>>

\* loadConfig (main.go): after a successful read and parse,
\* customPrint(fmt.Sprintf("Config loaded: %+v", cfg), DEBUG, false) writes
\* the whole Config to the console and the log file.
MainLoadConfig ==
    /\ setupPc = "tuiDone"
    /\ \E readOk \in BOOLEAN :
         IF cfgFile.exists /\ readOk
         THEN /\ loaded' = [status |-> "ok", password |-> Unmarshal(cfgFile).Password]
              /\ logged' = logged \cup {Unmarshal(cfgFile).Password}
         ELSE /\ loaded' = [status |-> "error", password |-> ""]
              /\ logged' = logged
    /\ setupPc' = "tuiLoaded"
    /\ UNCHANGED <<cfgFile, keyring, entered, written, mainPc, syncRest, startVars>>

\* Before a setup: the config file and the keyring entry are missing or are
\* what an earlier setup left.
SetupInit ==
    /\ SyncInit
    /\ mainPc = "notCalled"
    /\ mode = "cli"
    /\ startPc = "notStarted"
    /\ cfgLoad = "none"
    /\ loggerSet = FALSE
    /\ svcPc = "none"
    /\ startResult = "none"
    /\ panicked = FALSE
    /\ cfgFile \in {NoFile} \cup
           {Marshal(SetupConfig(pw, k, TRUE)) : pw \in Passwords, k \in BOOLEAN}
    /\ keyring \in {{}} \cup {{pw} : pw \in Passwords}
    /\ entered = ""
    /\ written = FALSE
    /\ setupPc = "idle"
    /\ loaded = NotLoaded
    /\ logged = {}

SetupNext ==
    \/ InteractiveSetup
    \/ LoadConfig
    \/ TUISave
    \/ MainLoadConfig

SetupSpec == SetupInit /\ [][SetupNext]_vars


\* ---------------------------------------------------------------- vocabulary of the properties
\* Every delivered event has been handled and no call is running.
Quiescent == loopPc = "select" /\ recvd = Len(observed) /\ InFlight = {}

\* Event k has been handled completely.
Handled(k) == k < recvd \/ (k = recvd /\ loopPc = "select")

EventsOn(p) == {k \in DOMAIN observed : observed[k].name = p}

OpsOn(p) == {i \in DOMAIN opLog : opLog[i].name = p}

OpsFor(k, kind) == {i \in DOMAIN opLog : opLog[i].seq = k /\ opLog[i].kind = kind}

Last(S) == CHOOSE x \in S : \A y \in S : y <= x

WantsUpload(op) == "Create" \in op \/ "Write" \in op

WantsDelete(op) == "Remove" \in op

\* Created, Modified and Removed events.
PlainOps == {{"Create"}, {"Write"}, {"Remove"}}

NetKind(op) == IF op = {"Remove"} THEN "delete" ELSE "upload"

TransientFailures == {"createError", "readError", "error"}

PresentRemotely(p) == remote[RemoteFile(p)] # Absent

PresentLocally(p) == local[p] # Absent

\* ---------------------------------------------------------------- C1
\* C1: once the changes have stopped and every resulting event has been
\* processed, a file exists on the remote store iff it exists locally, also
\* when remote calls failed transiently on the way.
C1_EventualConsistency ==
    (watching /\ Quiescent) =>
        \A p \in Paths : PresentRemotely(p) <=> PresentLocally(p)

\* ---------------------------------------------------------------- C2
\* C2: for every path, at most one remote operation (upload or delete) for
\* that path is in flight in any reachable state.
C2_OneInFlightPerPath ==
    \A i, j \in InFlight : opLog[i].name = opLog[j].name => i = j

\* An operation for a path is in flight while a later event for the same
\* path is already waiting.
C2_Witness ==
    \E i \in InFlight : \E k \in (recvd + 1)..Len(observed) :
        observed[k].name = opLog[i].name

\* ---------------------------------------------------------------- C3
\* C3: for every path the operations are executed in the order in which the
\* events of that path were observed, no event of the path being overtaken,
\* and no operation for the path begins before the previous one for it has
\* terminated.
C3_PerPathOrder ==
    \A j \in DOMAIN opLog :
        /\ observed[opLog[j].seq].name = opLog[j].name
        /\ \A i \in DOMAIN opLog :
             (i < j /\ opLog[i].name = opLog[j].name) =>
                 /\ opLog[i].seq <= opLog[j].seq
                 /\ opLog[i].outcome # "inflight"
        /\ \A k \in EventsOn(opLog[j].name) :
             (k < opLog[j].seq /\ (WantsUpload(observed[k].op) \/ WantsDelete(observed[k].op))) =>
                 \E i \in DOMAIN opLog : i < j /\ opLog[i].seq = k

\* A delete for a path is running after an upload for the same path ended.
C3_Witness ==
    \E i, j \in DOMAIN opLog :
        /\ i < j
        /\ opLog[i].name = opLog[j].name
        /\ opLog[i].kind = "upload"
        /\ opLog[i].seq < opLog[j].seq
        /\ opLog[j].kind = "delete"
        /\ opLog[j].outcome = "inflight"


\* ---------------------------------------------------------------- C4
\* C4 as stated: for every non-empty sequence of Created/Modified/Removed
\* events on one path arriving within one debounce window, exactly one
\* remote operation is issued for the path, of the kind of the net effect.
\* The loop has no timer, so however close together the events of a run
\* arrive, it handles them the same way.
C4_Coalesced ==
    Quiescent =>
        \A p \in Paths :
            (EventsOn(p) # {} /\ \A k \in EventsOn(p) : observed[k].op \in PlainOps) =>
                /\ Cardinality(OpsOn(p)) = 1
                /\ \A i \in OpsOn(p) :
                     opLog[i].kind = NetKind(observed[Last(EventsOn(p))].op)

\* C4 as amended: there is no coalescing.  Every handled event starts
\* exactly one upload if its mask has Create or Write and exactly one delete
\* if it has Remove, and nothing else; once a sequence of
\* Created/Modified/Removed events on a path is processed, the last
\* operation issued for the path has the kind of the net effect.
C4_OneOperationPerEvent ==
    /\ \A k \in 1..recvd :
         Handled(k) =>
             /\ Cardinality(OpsFor(k, "upload")) = (IF WantsUpload(observed[k].op) THEN 1 ELSE 0)
             /\ Cardinality(OpsFor(k, "delete")) = (IF WantsDelete(observed[k].op) THEN 1 ELSE 0)
    /\ Quiescent =>
         \A p \in Paths :
             (EventsOn(p) # {} /\ \A k \in EventsOn(p) : observed[k].op \in PlainOps) =>
                 /\ OpsOn(p) # {}
                 /\ opLog[Last(OpsOn(p))].kind = NetKind(observed[Last(EventsOn(p))].op)

\* A burst of three plain events on one path has been processed into three
\* operations.
C4_Witness ==
    /\ Quiescent
    /\ \E p \in Paths :
         /\ Cardinality(EventsOn(p)) = 3
         /\ \A k \in EventsOn(p) : observed[k].op \in PlainOps
         /\ Cardinality(OpsOn(p)) = 3

\* ---------------------------------------------------------------- C5
\* The events of the path are Create, then Writes, then Remove.
CreatedModifiedRemoved(p) ==
    /\ Cardinality(EventsOn(p)) >= 2
    /\ \A k \in EventsOn(p) :
         observed[k].op = (IF \A j \in EventsOn(p) : k <= j THEN {"Create"}
                           ELSE IF k = Last(EventsOn(p)) THEN {"Remove"}
                           ELSE {"Write"})

\* The put calls for the path that got as far as the remote session.
PutsReachingSession(p) ==
    {i \in OpsOn(p) : opLog[i].kind = "upload" /\ opLog[i].outcome # "openError"}

\* C5 as stated: when a path is created, modified and then removed within
\* the debounce window, no put for the path ever reaches the remote session.
C5_NoUploadBeforeRemoval ==
    \A p \in Paths : CreatedModifiedRemoved(p) => PutsReachingSession(p) = {}

\* C5 as amended: the uploads of the Create and Write events are not
\* discarded, each is attempted when its event is handled; the delete is
\* issued once, as the last operation of the path, after every upload for the
\* path has returned, and when it does not fail with a transport error the
\* path is absent from the remote store.
C5_DeleteIssuedLast ==
    Quiescent =>
        \A p \in Paths :
            CreatedModifiedRemoved(p) =>
                /\ Cardinality({i \in OpsOn(p) : opLog[i].kind = "delete"}) = 1
                /\ opLog[Last(OpsOn(p))].kind = "delete"
                /\ Cardinality({i \in OpsOn(p) : opLog[i].kind = "upload"})
                       = Cardinality(EventsOn(p)) - 1
                /\ opLog[Last(OpsOn(p))].outcome \in {"ok", "noSuchFile"} =>
                       ~PresentRemotely(p)

\* A path was created, written and removed, a put for it reached the remote
\* file, and the delete then took the file away.
C5_Witness ==
    /\ Quiescent
    /\ \E p \in Paths :
         /\ CreatedModifiedRemoved(p)
         /\ Cardinality(EventsOn(p)) = 3
         /\ \E i \in PutsReachingSession(p) : opLog[i].outcome = "ok"
         /\ opLog[Last(OpsOn(p))].outcome = "ok"

\* ---------------------------------------------------------------- C6
\* C6: an upload that failed with a transient error is attempted again
\* without a new filesystem event, until it succeeds: once the loop is idle,
\* an upload attempt that failed is followed by a further attempt of the same
\* operation.
C6_RetryAfterTransientFailure ==
    Quiescent =>
        \A i \in DOMAIN opLog :
            (opLog[i].kind = "upload" /\ opLog[i].outcome \in TransientFailures) =>
                \E j \in OpsFor(opLog[i].seq, "upload") : j > i

\* ---------------------------------------------------------------- C7
\* C7: an operation whose every attempt failed ends dead-lettered and its
\* path stays listed for inspection, while the loop keeps running.
C7_DeadLetterListed ==
    \A i \in DOMAIN opLog :
        (opLog[i].outcome \in TransientFailures /\ Handled(opLog[i].seq)) =>
            /\ opLog[i].name \in DeadLettered
            /\ loopPc # "exited"

\* ---------------------------------------------------------------- C8
\* C8: after the shutdown signal is delivered, watchAndSync eventually
\* returns with the watcher and the remote session closed.
C8_GracefulShutdown ==
    signalled ~> (mainPc = "returned" /\ ~watcherOpen /\ ~sessionOpen)

\* ---------------------------------------------------------------- C9
\* C9 as stated: a watcher error ends the event stream and reaches the
\* caller: once the loop has taken an error from watcher.Errors it is over
\* and watchAndSync reports the failure.
C9_WatchFailureTerminal ==
    errLogged > 0 => (loopPc = "exited" /\ result = "error")

\* C9 as amended: a watcher error is surfaced only as a "watcher error" log
\* line; the event loop keeps running and handles later events, watchAndSync
\* does not return and its caller is not told.
C9_ErrorLoggedLoopContinues ==
    errLogged > 0 =>
        /\ loopPc \in {"select", "upload", "delete"}
        /\ mainPc \in {"wait", "sendDone"}
        /\ result = "none"
        /\ watcherOpen

\* After a watcher error was logged, the loop took a later event and is
\* running its upload.
C9_Witness ==
    /\ errLogged > 0
    /\ loopPc = "upload"
    /\ recvd = Len(observed)

\* ---------------------------------------------------------------- C10
\* C10: a rename of A to B results in a remote delete of A (and an upload
\* of B): once the Rename event of A is handled, a delete was issued for it.
C10_RenameDeletesOldPath ==
    \A k \in 1..recvd :
        (Handled(k) /\ "Rename" \in observed[k].op) => OpsFor(k, "delete") # {}


\* ---------------------------------------------------------------- C11
\* C11 as stated, first part: a remote delete of a path that is already
\* absent is not an error.
C11_RemoveAbsentNotError ==
    \A i \in DOMAIN opLog :
        opLog[i].kind = "delete" => opLog[i].outcome # "noSuchFile"

\* C11 as amended: deleteFile on an absent path returns the error of
\* sftpClient.Remove (which the caller discards) and leaves the store as it
\* is; a delete that succeeds leaves the path absent and a put that succeeds
\* leaves exactly its content under the path, whatever was there before, and
\* neither touches another path: a second put of the same content, or a
\* second remove, leaves the store as the first one did.
C11_IdempotentStore ==
    [][\A i \in InFlight :
          (i \in DOMAIN opLog' /\ opLog'[i].outcome # "inflight") =>
              LET r == opLog[i].remote
                  out == opLog'[i].outcome
              IN  /\ \A x \in DOMAIN remote : x # r => remote'[x] = remote[x]
                  /\ (opLog[i].kind = "delete" /\ remote[r] = Absent) =>
                         (remote' = remote /\ out \in {"noSuchFile", "error"})
                  /\ (opLog[i].kind = "delete" /\ out = "ok") => remote'[r] = Absent
                  /\ (opLog[i].kind = "upload" /\ out = "ok") =>
                         remote'[r] \in CopiedContents(opLog[i])
                  /\ (out \in {"createError", "error", "noSuchFile"}) => remote' = remote
      ]_vars

\* A delete was issued for a path that was absent remotely and came back
\* with the error, after a put for another path had succeeded.
C11_Witness ==
    \E i, j \in DOMAIN opLog :
        /\ i < j
        /\ opLog[i].kind = "upload" /\ opLog[i].outcome = "ok"
        /\ opLog[j].kind = "delete" /\ opLog[j].outcome = "noSuchFile"
        /\ remote[opLog[i].remote] = opLog[i].content

\* ---------------------------------------------------------------- C15
\* C15: an operation that keeps failing transiently is retried, each time
\* later, until maxAttempts is reached, and is then dead-lettered for good:
\* once the loop is idle, a failed attempt is either followed by a further
\* attempt of the same operation or its operation is dead-lettered.
C15_RetriedOrDeadLettered ==
    Quiescent =>
        \A i \in DOMAIN opLog :
            opLog[i].outcome \in TransientFailures =>
                \/ \E j \in OpsFor(opLog[i].seq, opLog[i].kind) : j > i
                \/ opLog[i].name \in DeadLettered

\* ---------------------------------------------------------------- C16
\* C16: when one file is created and nothing else happens to it, exactly one
\* upload of the file reaches the remote session and succeeds, leaving its
\* content on the remote store, and no other operation is issued for it.
C16_SingleCreateSingleUpload ==
    Quiescent =>
        \A p \in Paths :
            (Cardinality(EventsOn(p)) = 1 /\ \A k \in EventsOn(p) : observed[k].op = {"Create"}) =>
                /\ Cardinality(OpsOn(p)) = 1
                /\ \A i \in OpsOn(p) : opLog[i].kind = "upload" /\ opLog[i].outcome = "ok"
                /\ remote[RemoteFile(p)] = local[p]

\* ---------------------------------------------------------------- C18
\* C18: at most one remote operation is in progress at any time across all
\* paths, operations are issued in the order in which their events were
\* received, and no event is taken before the operations of the previous
\* event have returned.
C18_GlobalSerialization ==
    /\ Cardinality(InFlight) <= 1
    /\ \A i, j \in DOMAIN opLog :
         i < j => (opLog[i].seq <= opLog[j].seq /\ opLog[i].outcome # "inflight")
    /\ \A i \in InFlight : opLog[i].seq = recvd
    /\ \A i \in DOMAIN opLog : opLog[i].seq <= recvd

\* An operation for one path is running while an event for another path
\* waits, after an earlier operation has returned.
C18_Witness ==
    \E i \in InFlight :
        /\ i > 1
        /\ \E k \in (recvd + 1)..Len(observed) : observed[k].name # opLog[i].name

\* ---------------------------------------------------------------- C19
\* C19: when the SFTP connection or the registration of the watch fails,
\* watchAndSync returns an error without waiting for a signal, no remote
\* operation is issued, the watcher and the SFTP client are closed on
\* return, and the event-loop goroutine, if it was started, terminates.
C19_StartupFailureCleanup ==
    /\ [](mainPc = "returned" =>
            /\ result = "error"
            /\ ~signalled
            /\ ~watcherOpen
            /\ ~sessionOpen
            /\ opLog = <<>>
            /\ loopPc \in {"notStarted", "select", "exited"})
    /\ (mainPc = "returned" /\ loopPc # "notStarted") ~> (loopPc = "exited")

\* watcher.Add failed after the goroutine was started, and the goroutine
\* has returned.
C19_Witness ==
    mainPc = "returned" /\ loopPc = "exited" /\ result = "error"


\* ---------------------------------------------------------------- C13
\* C13: after a subdirectory is created under the watched root, changes to
\* files inside it produce events and the corresponding remote operations:
\* once the loop is idle, a file that exists inside the subdirectory has had
\* an upload issued for it.
C13_SubdirFilesSynced ==
    Quiescent =>
        \A p \in SubPaths :
            local[p] # Absent =>
                \E i \in DOMAIN opLog : opLog[i].name = p /\ opLog[i].kind = "upload"


\* ---------------------------------------------------------------- C14
\* C14: when loading the configuration fails, the start path returns the
\* error, and no watcher is created, no remote connection is attempted and
\* no remote operation is issued, in the sync command and in the service.
C14_ConfigErrorFatal ==
    cfgLoad = "failed" =>
        /\ startResult = "error"
        /\ ~panicked
        /\ mainPc = "notCalled"
        /\ ~watcherOpen
        /\ ~sessionOpen
        /\ opLog = <<>>

\* ---------------------------------------------------------------- C17
\* C17: in every interleaving of program.Start, program.run and
\* program.Stop, no logging call executes while the package-level logger is
\* nil.
C17_LoggerSetBeforeUse == ~panicked


\* ---------------------------------------------------------------- C12
\* C12: the connection password never appears in log or console output and
\* is never written to persistent storage by the program.
C12_PasswordNeverStoredOrLogged ==
    entered # "" =>
        /\ entered \notin logged
        /\ written => ~(cfgFile.hasPassword /\ cfgFile.password = entered)

\* ---------------------------------------------------------------- C20
\* C20 as stated: after interactiveSetup has written the config, the
\* password is in the config file iff it is not held in the keyring (the file
\* says use_keyring false), and a following loadConfig that returns a Config
\* returns the password entered.
C20_StoredIffNotInKeyring ==
    (setupPc \in {"setupDone", "loaded"} /\ written) =>
        /\ cfgFile.hasPassword <=> ~cfgFile.useKeyring
        /\ loaded.status = "ok" => loaded.password = entered

\* C20: after interactiveSetup has written the config, the config file holds
\* a password iff use_keyring is false in it and the password is not empty,
\* the password it holds is the one entered, a file with use_keyring true
\* goes with a keyring entry holding the password entered, and a following
\* loadConfig that returns a Config returns the password entered.
C20_PasswordRoundTrip ==
    (setupPc \in {"setupDone", "loaded"} /\ written) =>
        /\ cfgFile.hasPassword <=> (~cfgFile.useKeyring /\ entered # "")
        /\ cfgFile.hasPassword => cfgFile.password = entered
        /\ cfgFile.useKeyring => keyring = {entered}
        /\ loaded.status = "ok" => loaded.password = entered

\* The keyring was chosen and took a password, and loadConfig returned it.
C20_Witness ==
    /\ setupPc = "loaded"
    /\ written
    /\ entered \in Passwords
    /\ cfgFile.useKeyring
    /\ ~cfgFile.hasPassword
    /\ loaded.status = "ok"
    /\ loaded.password = entered


\* ---------------------------------------------------------------- C21
\* The operations started for event k, in the order of their calls.
OpsOfEvent(k) == {i \in DOMAIN opLog : opLog[i].seq = k}

\* C21: within one event the upload precedes the delete.  For an event whose
\* mask has both Write or Create and Remove, the delete is started only
\* after the upload of that event was called and has returned, and it is for
\* the same remote path; once the event is handled it has exactly one upload
\* and one delete, the delete being the last operation of the event.  An
\* event whose mask has neither Write, Create nor Remove (Rename or Chmod
\* only) never starts a remote operation.
C21_UploadThenDeleteInEvent ==
    \A k \in DOMAIN observed :
        /\ (WantsUpload(observed[k].op) /\ WantsDelete(observed[k].op)) =>
              /\ \A d \in OpsFor(k, "delete") :
                   /\ OpsFor(k, "upload") # {}
                   /\ \A u \in OpsFor(k, "upload") :
                        /\ u < d
                        /\ opLog[u].outcome # "inflight"
                        /\ opLog[u].remote = opLog[d].remote
                   /\ opLog[d].remote = RemoteFile(observed[k].name)
              /\ Handled(k) =>
                   /\ Cardinality(OpsFor(k, "upload")) = 1
                   /\ Cardinality(OpsFor(k, "delete")) = 1
                   /\ opLog[Last(OpsOfEvent(k))].kind = "delete"
        /\ (~WantsUpload(observed[k].op) /\ ~WantsDelete(observed[k].op)) =>
              OpsOfEvent(k) = {}

\* A Write|Remove event was handled, its upload and then its delete having
\* returned, and a Chmod event was handled without any remote operation.
C21_Witness ==
    /\ \E k \in DOMAIN observed :
         /\ Handled(k)
         /\ observed[k].op = {"Write", "Remove"}
         /\ \E u \in OpsFor(k, "upload"), d \in OpsFor(k, "delete") :
              u < d /\ opLog[d].outcome # "inflight"
    /\ \E k \in DOMAIN observed :
         /\ Handled(k)
         /\ observed[k].op = {"Chmod"}

====
